---- MODULE Spec2Model ----
(***************************************************************************)
(* ESGPreprocessingPipeline (src/Preprocessing/preprocessing_pipeline.py): *)
(* the fit / transform / save / load life cycle of one pipeline object and *)
(* the records it keeps on disk.                                           *)
(*                                                                         *)
(* Tables carry real cell values through feature identification and        *)
(* imputation (fill values and skewness are computed exactly, in integer   *)
(* units).  What the statistics library computes from then on (scaling,    *)
(* power transform, one-hot encoding, PCA, t-SNE) is kept as the shape of  *)
(* the matrix, whether it holds NaN, and the identity of the fitted object *)
(* that produced it.                                                       *)
(***************************************************************************)
EXTENDS Integers, Sequences, FiniteSets, TLC

\* A value that several later expressions read is bound once, as the only
\* element of a set:  CHOOSE r \in {e(x) : x \in {v}} : TRUE  is e(v).

\* ------------------------------------------------------------------ bounds
MaxRows == 4      \* rows of the largest table
MaxFits == 2      \* fit_transform calls that create fitted objects
MaxCalls == 2     \* fit_transform and transform calls recorded in one log
MaxSide == 6      \* rows and columns of the largest matrix handed to the reduction
MaxRefits == 3    \* fit_transform calls in the runs that fit again after a load

\* ------------------------------------------------------------- arithmetic
RECURSIVE Gcd(_, _)
Gcd(a, b) == IF b = 0 THEN a ELSE CHOOSE g \in {Gcd(b, r) : r \in {a % b}} : TRUE

Abs(x) == IF x < 0 THEN -x ELSE x

Min(a, b) == IF a <= b THEN a ELSE b

Max(a, b) == IF a >= b THEN a ELSE b

RECURSIVE LcmUpTo(_)
LcmUpTo(n) ==
    IF n <= 1 THEN 1
    ELSE CHOOSE l \in {(m * n) \div Gcd(m, n) : m \in {LcmUpTo(n - 1)}} : TRUE

\* One whole number of the data, in units fine enough that every mean and
\* median of at most MaxRows whole numbers is again an integer.
Unit == LcmUpTo(MaxRows)

\* np.nan in a numeric column, None/NaN in an object column.
NaN == -1

NaNStr == "NaN"

\* ------------------------------------------------------------- sequences
RECURSIVE SumSeq(_)
SumSeq(s) == IF s = <<>> THEN 0 ELSE Head(s) + SumSeq(Tail(s))

\* sorted(s)
SortAsc(s) == SortSeq(s, LAMBDA a, b : a < b)

Range(s) == {s[i] : i \in DOMAIN s}

\* [x for x in s if x in S]
Keep(s, S) == SelectSeq(s, LAMBDA x : x \in S)

Count(s, x) == Cardinality({i \in DOMAIN s : s[i] = x})

\* ------------------------------------------------------------------ tables
\* The dtype pandas gives each column of the data.
DType(name) == IF name \in {"Industry"} THEN "object" ELSE "number"

\* Category values in sorted (alphabetical) order, the order of
\* Series.mode() and of OneHotEncoder.categories_.
CategoryOrder == <<"Energy", "Retail", "Tech", "Unknown">>

CatIndex(c) == CHOOSE i \in DOMAIN CategoryOrder : CategoryOrder[i] = c

\* Column contents by pattern name, n rows.
Pattern(p, n) ==
    CASE p = "sym"    -> [i \in 1..n |-> IF i % 2 = 1 THEN 0 ELSE Unit]
      [] p = "skew"   -> [i \in 1..n |-> IF i = n THEN Unit ELSE 0]
      [] p = "gaplo"  -> [i \in 1..n |-> IF i = 1 THEN NaN ELSE IF i = n THEN Unit ELSE 0]
      [] p = "gaphi"  -> [i \in 1..n |-> IF i = 1 THEN NaN ELSE IF i = 2 THEN 0 ELSE Unit]
      [] p = "allnan" -> [i \in 1..n |-> NaN]
      [] p = "years"  -> [i \in 1..n |-> 2 * Unit]
      [] p = "gapy"   -> [i \in 1..n |-> IF i = 1 THEN NaN ELSE 2 * Unit]
      [] p = "two"    -> [i \in 1..n |-> IF i % 2 = 1 THEN "Tech" ELSE "Energy"]
      [] p = "gapc"   -> [i \in 1..n |-> IF i = 1 THEN NaNStr ELSE IF i = n THEN "Energy" ELSE "Tech"]
      [] p = "one"    -> [i \in 1..n |-> "Tech"]
      [] p = "new"    -> [i \in 1..n |-> IF i = 1 THEN "Retail" ELSE IF i % 2 = 1 THEN "Tech" ELSE "Energy"]

\* A DataFrame: column names in order, row count, cells by column.
DF(n, names, pats) ==
    [names |-> names, n |-> n,
     cells |-> [c \in Range(names) |->
                  Pattern(pats[CHOOSE i \in DOMAIN names : names[i] = c], n)]]

IsNull(name, v) == IF DType(name) = "object" THEN v = NaNStr ELSE v = NaN

\* df[name].isnull().sum()
NullCount(df, name) == Cardinality({i \in 1..df.n : IsNull(name, df.cells[name][i])})

\* df.isnull().sum().sum()
TotalNulls(df) == SumSeq([k \in DOMAIN df.names |-> NullCount(df, df.names[k])])

\* The tables handed to fit_transform ...
FitData ==
    { DF(MaxRows, <<"Revenue", "MarketCap">>, <<"skew", "sym">>),
      DF(MaxRows, <<"Revenue", "MarketCap">>, <<"sym", "sym">>),
      DF(MaxRows, <<"Revenue", "Industry">>, <<"gaplo", "gapc">>),
      DF(MaxRows, <<"Revenue", "Industry">>, <<"skew", "one">>),
      DF(MaxRows, <<"Industry">>, <<"two">>),
      DF(MaxRows, <<"Revenue">>, <<"allnan">>) }

\* ... and to transform: the same, and tables that differ from them in row
\* count, column order, missing cells, categories and extra columns.
NewData ==
    FitData \cup
    { DF(MaxRows, <<"MarketCap", "Revenue">>, <<"sym", "gaplo">>),
      DF(MaxRows, <<"Revenue", "MarketCap">>, <<"gaphi", "sym">>),
      DF(2,       <<"Revenue", "MarketCap">>, <<"sym", "sym">>),
      DF(MaxRows, <<"Year", "Revenue", "Industry">>, <<"gapy", "sym", "new">>) }

\* ----------------------------------------------------------- configuration
\* The options of _load_config that the pipeline reads, flattened.  A float
\* is kept as a fraction: pca_n_components in hundredths with its Python
\* type, skewness_threshold as num/den.
DefaultConfig ==
    [missing_strategy_numerical   |-> "median",
     missing_strategy_categorical |-> "most_frequent",
     scaling_method               |-> "standard",
     apply_power_transform        |-> TRUE,
     skewness_threshold           |-> [num |-> 1, den |-> 1],
     categorical_encoding         |-> "onehot",
     drop_first_category          |-> TRUE,
     apply_pca                    |-> TRUE,
     pca_n_components             |-> [isfloat |-> TRUE, x100 |-> 95],
     pca_min_components           |-> 5,
     apply_tsne                   |-> TRUE,
     tsne_n_components            |-> 2,
     tsne_perplexity              |-> 30,
     identifier_features          |-> {"CompanyID", "CompanyName", "Year"},
     check_missing_values         |-> TRUE,
     check_feature_ranges         |-> TRUE,
     check_shape_consistency      |-> TRUE]

\* User configurations merged over the defaults by _deep_update.
SmallConfig == [DefaultConfig EXCEPT !.pca_min_components = 1]

PlainConfig == [DefaultConfig EXCEPT !.apply_pca = FALSE, !.apply_tsne = FALSE]

AltConfig ==
    [DefaultConfig EXCEPT !.missing_strategy_numerical = "mean",
                          !.missing_strategy_categorical = "constant",
                          !.scaling_method = "robust",
                          !.apply_power_transform = FALSE,
                          !.categorical_encoding = "label",
                          !.pca_n_components = [isfloat |-> FALSE, x100 |-> 200],
                          !.apply_tsne = FALSE]

LabelConfig == [PlainConfig EXCEPT !.categorical_encoding = "label"]

Configs == {DefaultConfig, SmallConfig, PlainConfig, AltConfig, LabelConfig}

\* _log_step: the entry appended, by its step name (the timestamp and the
\* free-text detail are left out).
LogEntry(step) == [step |-> step]

\* ------------------------------------------------- feature identification
\* _identify_feature_types: numeric columns minus the identifier columns,
\* and the object columns, each in the table's column order.
IdentifyFeatureTypes(cfg, df) ==
    [numerical_features |->
        Keep(df.names, {c \in Range(df.names) :
                           DType(c) = "number" /\ c \notin cfg.identifier_features}),
     categorical_features_available |->
        Keep(df.names, {c \in Range(df.names) : DType(c) = "object"}),
     log |-> <<LogEntry("Feature Identification")>>]

\* ------------------------------------------------------------- imputation
\* The non-missing values of a column, in row order.
Present(name, col) == SelectSeq(col, LAMBDA v : ~IsNull(name, v))

\* Series.median(): NaN for a column with no value.
Median(vals) ==
    LET m == Len(vals)
    IN  IF m = 0 THEN NaN
        ELSE CHOOSE r \in
               { IF m % 2 = 1 THEN s[(m + 1) \div 2]
                 ELSE (s[m \div 2] + s[m \div 2 + 1]) \div 2
                 : s \in {SortAsc(vals)} } : TRUE

\* Series.mean(): NaN for a column with no value.
Mean(vals) == IF Len(vals) = 0 THEN NaN ELSE SumSeq(vals) \div Len(vals)

\* Series.mode(): the most frequent values, sorted.
NumMode(vals) ==
    LET top == {v \in Range(vals) : \A w \in Range(vals) : Count(vals, w) <= Count(vals, v)}
    IN  Keep(SortAsc(vals), top)

CatMode(vals) ==
    LET top == {v \in Range(vals) : \A w \in Range(vals) : Count(vals, w) <= Count(vals, v)}
    IN  Keep(CategoryOrder, top)

\* The fill value of one column with missing values (lines 224-229, 241-244).
NumFillValue(cfg, vals) ==
    IF cfg.missing_strategy_numerical = "median" THEN Median(vals)
    ELSE IF cfg.missing_strategy_numerical = "mean" THEN Mean(vals)
    ELSE CHOOSE r \in {IF mode # <<>> THEN mode[1] ELSE 0 : mode \in {NumMode(vals)}} : TRUE

CatFillValue(cfg, vals) ==
    IF cfg.missing_strategy_categorical = "most_frequent"
    THEN CHOOSE r \in {IF mode # <<>> THEN mode[1] ELSE "Unknown"
                         : mode \in {CatMode(vals)}} : TRUE
    ELSE "Unknown"

\* df_clean[col].fillna(fill_value, inplace=True), as pandas without
\* copy-on-write runs it (the column of df_clean is filled); filling with
\* NaN leaves the cell missing.
FillNa(name, col, fill) == [i \in DOMAIN col |-> IF IsNull(name, col[i]) THEN fill ELSE col[i]]

\* A cleaning that drops the rows with a missing cell (DataFrame.dropna)
\* instead of filling them.
DropMissingRows(cfg, df, ft) ==
    LET kept == SelectSeq([i \in 1..df.n |-> i],
                          LAMBDA i : \A c \in Range(df.names) : ~IsNull(c, df.cells[c][i]))
    IN  [df_clean |-> [df EXCEPT !.n = Len(kept),
                                 !.cells = [c \in DOMAIN df.cells |->
                                              [k \in 1..Len(kept) |-> df.cells[c][kept[k]]]]],
         missing_info |-> [c \in {} |-> 0],
         log |-> <<LogEntry("Missing Values Check")>>]

\* A cleaning that returns a complete table without a log entry.
CleanSilently(cfg, df, ft) ==
    IF TotalNulls(df) = 0
    THEN [df_clean |-> df, missing_info |-> [c \in {} |-> 0], log |-> <<>>]
    ELSE DropMissingRows(cfg, df, ft)

\* _handle_missing_values: the cleaned table, missing_info and the log
\* entries appended.
HandleMissingValues(cfg, df, ft) ==
    LET missing_features == {c \in Range(df.names) : NullCount(df, c) > 0}
        numerical_missing == missing_features \cap Range(ft.numerical_features)
        categorical_missing == missing_features \cap Range(ft.categorical_features_available)
        fill_value(c) ==
            CHOOSE r \in
              { IF c \in categorical_missing
                THEN CatFillValue(cfg, vals) ELSE NumFillValue(cfg, vals)
                : vals \in {Present(c, df.cells[c])} } : TRUE
    IN  IF missing_features # {}
        THEN CHOOSE r \in
               { [df_clean |-> [df EXCEPT !.cells =
                                  [c \in DOMAIN df.cells |->
                                     IF c \in DOMAIN missing_info
                                     THEN FillNa(c, df.cells[c], missing_info[c])
                                     ELSE df.cells[c]]],
                  missing_info |-> missing_info,
                  log |-> <<LogEntry("Missing Values Detection"),
                            LogEntry("Missing Values Handling")>>]
                 : missing_info \in
                     {[c \in numerical_missing \cup categorical_missing |-> fill_value(c)]} }
               : TRUE
        ELSE [df_clean |-> df,
              missing_info |-> [c \in {} |-> 0],
              log |-> <<LogEntry("Missing Values Check")>>]

\* ------------------------------------------------------- fitted objects
\* A stage slot that holds no object.
None == [cls |-> "None"]

\* A numeric matrix after the values stop mattering: rows, columns, and
\* whether any cell is NaN.
Matrix(n, p, nan) == [n |-> n, p |-> p, nan |-> nan]

\* df_clean[features].values, with its cell values.
Values(df, features) == [n |-> df.n, cols |-> [k \in DOMAIN features |-> df.cells[features[k]]]]

HasNaN(col) == \E i \in DOMAIN col : col[i] = NaN

ShapeOf(X) == Matrix(X.n, Len(X.cols), \E k \in DOMAIN X.cols : HasNaN(X.cols[k]))

\* ---------------------------------------------------------- skew reduction
RECURSIVE GcdSeq(_)
GcdSeq(s) ==
    IF s = <<>> THEN 0
    ELSE CHOOSE g \in {Gcd(Abs(Head(s)), t) : t \in {GcdSeq(Tail(s))}} : TRUE

\* abs(scipy.stats.skew(col)) >= threshold.  With d[i] = n*x[i] - sum(x),
\* skew^2 = n * (sum d^3)^2 / (sum d^2)^3; the skewness of a column with a
\* NaN or without variance is NaN, which compares false.
HighSkew(col, thr) ==
    LET n == Len(col)
    IN  IF HasNaN(col) \/ n = 0 THEN FALSE
        ELSE \E t \in {SumSeq(col)} :
             \E d0 \in {[i \in DOMAIN col |-> n * col[i] - t]} :
             \E g \in {GcdSeq(d0)} :
                /\ g # 0
                /\ \E d \in {[i \in DOMAIN col |-> d0[i] \div g]} :
                   \E S2 \in {SumSeq([i \in DOMAIN col |-> d[i] * d[i]])} :
                   \E S3 \in {SumSeq([i \in DOMAIN col |-> d[i] * d[i] * d[i]])} :
                      n * S3 * S3 * thr.den * thr.den >= thr.num * thr.num * S2 * S2 * S2

\* A power transform fitted on, and applied to, the qualifying columns only.
PowerTransformQualifying(cfg, X, id) ==
    LET high_skew_features ==
            {k \in DOMAIN X.cols : HighSkew(X.cols[k], cfg.skewness_threshold)}
    IN  IF ~cfg.apply_power_transform \/ high_skew_features = {}
        THEN [X |-> ShapeOf(X), transformed |-> {}, obj |-> None, log |-> <<>>]
        ELSE [X |-> ShapeOf(X), transformed |-> high_skew_features,
              obj |-> [cls |-> "PowerTransformer", fit |-> id,
                       n_features_in |-> Cardinality(high_skew_features)],
              log |-> <<LogEntry("Power Transformation")>>]

\* _apply_power_transformation: the matrix returned, the columns the
\* transformer was applied to, the transformer (or None) and the log entries.
ApplyPowerTransformation(cfg, X, id) ==
    IF ~cfg.apply_power_transform
    THEN [X |-> ShapeOf(X), transformed |-> {}, obj |-> None, log |-> <<>>]
    ELSE LET high_skew_features ==
                 {k \in DOMAIN X.cols : HighSkew(X.cols[k], cfg.skewness_threshold)}
         IN  IF high_skew_features = {}
             THEN [X |-> ShapeOf(X), transformed |-> {}, obj |-> None,
                   log |-> <<LogEntry("Skewness Analysis")>>]
             ELSE [X |-> ShapeOf(X), transformed |-> DOMAIN X.cols,
                   obj |-> [cls |-> "PowerTransformer", fit |-> id,
                            n_features_in |-> Len(X.cols)],
                   log |-> <<LogEntry("Power Transformation")>>]

\* ------------------------------------------------------------------ scaling
ScalerClass(cfg) ==
    IF cfg.scaling_method = "robust" THEN "RobustScaler"
    ELSE IF cfg.scaling_method = "minmax" THEN "MinMaxScaler"
    ELSE "StandardScaler"

\* _apply_scaling: scaler.fit_transform raises on a matrix without columns.
ApplyScaling(cfg, X, id) ==
    IF X.p = 0 \/ X.n = 0
    THEN [ok |-> FALSE, X |-> X, obj |-> None, log |-> <<>>]
    ELSE [ok |-> TRUE, X |-> X,
          obj |-> [cls |-> ScalerClass(cfg), fit |-> id, n_features_in |-> X.p],
          log |-> <<LogEntry("Feature Scaling")>>]

\* ----------------------------------------------------------------- encoding
\* f"{feature}_{category}", the names of get_feature_names_out.
EncodedName(feature, category) == feature \o "_" \o category

\* The categories OneHotEncoder keeps a column for.
KeptCategories(col, drop_first) ==
    LET cats == Keep(CategoryOrder, Range(col))
    IN  IF drop_first /\ cats # <<>> THEN Tail(cats) ELSE cats

RECURSIVE EncodedNames(_, _)
EncodedNames(features, kept) ==
    IF features = <<>> THEN <<>>
    ELSE [k \in DOMAIN kept[Head(features)] |->
            EncodedName(Head(features), kept[Head(features)][k])]
         \o EncodedNames(Tail(features), kept)

\* An encoding that returns its matrix and names without the encoder object.
EncodeWithoutEncoder(cfg, df, categorical_features, id) ==
    IF categorical_features = <<>>
    THEN [X |-> Matrix(df.n, 0, FALSE), names |-> <<>>, obj |-> None, log |-> <<>>]
    ELSE CHOOSE r \in
           { [X |-> Matrix(df.n, Len(names), FALSE), names |-> names,
              obj |-> None, log |-> <<LogEntry("Categorical Encoding")>>]
             : names \in
                 {EncodedNames(categorical_features,
                               [c \in Range(categorical_features) |->
                                  KeptCategories(df.cells[c], cfg.drop_first_category)])} }
           : TRUE

\* _encode_categorical_features: the encoded matrix, its column names, the
\* encoder (or None) and the log entries.
EncodeCategoricalFeatures(cfg, df, categorical_features, id) ==
    IF categorical_features = <<>>
    THEN [X |-> Matrix(df.n, 0, FALSE), names |-> <<>>, obj |-> None, log |-> <<>>]
    ELSE IF cfg.categorical_encoding = "onehot"
    THEN CHOOSE r \in
           { [X |-> Matrix(df.n, Len(names), FALSE), names |-> names,
              obj |-> [cls |-> "OneHotEncoder", fit |-> id,
                       features |-> categorical_features, n_out |-> Len(names)],
              log |-> <<LogEntry("Categorical Encoding")>>]
             : names \in
                 {EncodedNames(categorical_features,
                               [c \in Range(categorical_features) |->
                                  KeptCategories(df.cells[c], cfg.drop_first_category)])} }
           : TRUE
    ELSE [X |-> Matrix(df.n, 0, FALSE), names |-> <<>>, obj |-> None, log |-> <<>>]

\* ------------------------------------------------ dimensionality reduction
\* explained_variance_ratio_ of the full-rank projection of a matrix with m
\* available components, in hundredths: the variance spread evenly over the
\* first j components, or NaN throughout (a matrix without variance).
VarianceCurve(m, j) ==
    IF j = 0 THEN [i \in 1..m |-> NaN]
    ELSE [i \in 1..m |-> IF i <= Min(j, m) THEN 100 \div Min(j, m) ELSE 0]

\* np.cumsum
CumSum(curve) ==
    [i \in DOMAIN curve |->
        IF \E k \in 1..i : curve[k] = NaN THEN NaN
        ELSE SumSeq(SubSeq(curve, 1, i))]

\* np.argmax(cumsum_var >= n_components) + 1: the first index that reaches
\* the fraction, and index 0 + 1 when none does (NaN compares false).
ArgmaxPlusOne(curve, x100) ==
    CHOOSE r \in
      { IF reached = {} THEN 1 ELSE CHOOSE i \in reached : \A k \in reached : i <= k
        : reached \in
            { {i \in DOMAIN c : c[i] # NaN /\ c[i] >= x100} : c \in {CumSum(curve)} } }
      : TRUE

\* The component count without the floor of line 367.
PcaComponentsUnclamped(cfg, curve) ==
    IF cfg.pca_n_components.isfloat /\ cfg.pca_n_components.x100 <= 100
    THEN ArgmaxPlusOne(curve, cfg.pca_n_components.x100)
    ELSE cfg.pca_n_components.x100 \div 100

\* The component count when the target is told apart by value alone.
PcaComponentsByValue(cfg, curve) ==
    IF cfg.pca_n_components.x100 <= 100
    THEN Max(ArgmaxPlusOne(curve, cfg.pca_n_components.x100), cfg.pca_min_components)
    ELSE cfg.pca_n_components.x100 \div 100

\* The component count PCA is (re)fitted with (lines 359-377).
PcaComponents(cfg, curve) ==
    IF cfg.pca_n_components.isfloat /\ cfg.pca_n_components.x100 <= 100
    THEN Max(ArgmaxPlusOne(curve, cfg.pca_n_components.x100), cfg.pca_min_components)
    ELSE cfg.pca_n_components.x100 \div 100

\* PCA(n_components=n_comp).fit_transform(X) raises on NaN input and on a
\* count above min(n_samples, n_features).
PcaFits(X, n_comp) == ~X.nan /\ n_comp >= 0 /\ n_comp <= Min(X.n, X.p)

\* min(perplexity, (len(X) - 1) // 3)
Perplexity(cfg, n) == Min(cfg.tsne_perplexity, (n - 1) \div 3)

\* TSNE(...).fit_transform(X) raises on NaN input, on a perplexity that is
\* not positive or not below n_samples, and when its PCA initialisation
\* cannot produce n_components columns.
TsneFits(cfg, X, perplexity) ==
    /\ ~X.nan
    /\ perplexity > 0
    /\ perplexity < X.n
    /\ cfg.tsne_n_components <= Min(X.n, X.p)

\* The PCA part of _apply_dimensionality_reduction (lines 354-386): the
\* projected matrix, the fitted PCA and the log entry, or that PCA raised.
ReducePca(cfg, X, curve, id) ==
    IF ~cfg.apply_pca
    THEN [ok |-> TRUE, X |-> X, obj |-> None, log |-> <<>>]
    ELSE CHOOSE r \in
           { IF PcaFits(X, n_comp)
             THEN [ok |-> TRUE, X |-> Matrix(X.n, n_comp, FALSE),
                   obj |-> [cls |-> "PCA", fit |-> id, n_features_in |-> X.p,
                            n_components |-> n_comp],
                   log |-> <<LogEntry("PCA Application")>>]
             ELSE [ok |-> FALSE, X |-> X, obj |-> None, log |-> <<>>]
             : n_comp \in {PcaComponents(cfg, curve)} } : TRUE

\* The t-SNE part (lines 388-408), on the PCA output when there is one.
ReduceTsne(cfg, X, X_for_tsne, id) ==
    IF ~cfg.apply_tsne
    THEN [ok |-> TRUE, X |-> X, obj |-> None, log |-> <<>>]
    ELSE CHOOSE r \in
           { IF TsneFits(cfg, X_for_tsne, perplexity)
             THEN [ok |-> TRUE, X |-> Matrix(X.n, cfg.tsne_n_components, FALSE),
                   obj |-> [cls |-> "TSNE", fit |-> id, perplexity |-> perplexity],
                   log |-> <<LogEntry("t-SNE Application")>>]
             ELSE [ok |-> FALSE, X |-> X, obj |-> None, log |-> <<>>]
             : perplexity \in {Perplexity(cfg, X.n)} } : TRUE

\* A reduction that logs its t-SNE entry ahead of its PCA entry.
ReductionLoggedBackwards(cfg, X, curve, id) ==
    CHOOSE r \in
      { IF ~pca_part.ok
        THEN [failed |-> "pca", pca |-> None, tsne |-> None, log |-> <<>>,
              X_pca |-> X, X_tsne |-> X]
        ELSE CHOOSE r2 \in
               { IF ~tsne_part.ok
                 THEN [failed |-> "tsne", pca |-> None, tsne |-> None,
                       log |-> pca_part.log, X_pca |-> X, X_tsne |-> X]
                 ELSE [failed |-> "none", pca |-> pca_part.obj, tsne |-> tsne_part.obj,
                       log |-> tsne_part.log \o pca_part.log,
                       X_pca |-> pca_part.X, X_tsne |-> tsne_part.X]
                 : tsne_part \in {ReduceTsne(cfg, X, pca_part.X, id)} } : TRUE
        : pca_part \in {ReducePca(cfg, X, curve, id)} } : TRUE

\* _apply_dimensionality_reduction: reduction_results, or the stage that
\* raised, with the log entries appended before it did.
ApplyDimensionalityReduction(cfg, X, curve, id) ==
    CHOOSE r \in
      { IF ~pca_part.ok
        THEN [failed |-> "pca", pca |-> None, tsne |-> None, log |-> <<>>,
              X_pca |-> X, X_tsne |-> X]
        ELSE CHOOSE r2 \in
               { IF ~tsne_part.ok
                 THEN [failed |-> "tsne", pca |-> None, tsne |-> None,
                       log |-> pca_part.log, X_pca |-> X, X_tsne |-> X]
                 ELSE [failed |-> "none", pca |-> pca_part.obj, tsne |-> tsne_part.obj,
                       log |-> pca_part.log \o tsne_part.log,
                       X_pca |-> pca_part.X, X_tsne |-> tsne_part.X]
                 : tsne_part \in {ReduceTsne(cfg, X, pca_part.X, id)} } : TRUE
        : pca_part \in {ReducePca(cfg, X, curve, id)} } : TRUE

\* ------------------------------------------------------------ fit_transform
\* One result variant: a DataFrame by its row count, its column names and
\* whether it holds a missing value.
Variant(n, columns, nan) == [n |-> n, columns |-> columns, nan |-> nan]

NoResults == [v \in {} |-> Variant(0, <<>>, FALSE)]

\* d1 | d2 on dicts
Update(d1, d2) ==
    [k \in DOMAIN d1 \cup DOMAIN d2 |-> IF k \in DOMAIN d2 THEN d2[k] ELSE d1[k]]

PcaNames(k) == [i \in 1..k |-> "PCA_" \o ToString(i)]

TsneNames(k) == [i \in 1..k |-> "t-SNE_" \o ToString(i)]

ScaledNames(features) == [i \in DOMAIN features |-> features[i] \o "_scaled"]

\* complete_data[name] = ... for each name in turn: a new name is appended,
\* an existing one is overwritten in place.
RECURSIVE AssignColumns(_, _)
AssignColumns(columns, names) ==
    IF names = <<>> THEN columns
    ELSE AssignColumns(IF Head(names) \in Range(columns) THEN columns
                       ELSE Append(columns, Head(names)),
                       Tail(names))

\* The value of `X_power_transformed is not None` (line 471):
\* _apply_power_transformation returns the matrix itself when it skips.
PowerVariantPresent(pt) == TRUE

\* What a fit_transform or transform call comes to: the object it leaves,
\* whether it returned or raised (and in which stage), the variants it
\* returned, and the missing cells of the table _handle_missing_values gave.
Outcome(self, outcome, stage, results, df_clean) ==
    [self |-> self, outcome |-> outcome, stage |-> stage, results |-> results,
     clean_nulls |-> TotalNulls(df_clean)]

\* Lines 464-532: the variants, from the matrices of the stages.
FitResults(cfg, df_clean, numerical_features, pt, sc, enc, X_combined, combined_feature_names, dr) ==
    CHOOSE results \in
      { Update(r, [v \in {"complete"} |->
           Variant(df_clean.n,
                   AssignColumns(
                     AssignColumns(
                       AssignColumns(df_clean.names, ScaledNames(r["scaled"].columns)),
                       IF "pca" \in DOMAIN r THEN r["pca"].columns ELSE <<>>),
                     IF "tsne" \in DOMAIN r THEN r["tsne"].columns ELSE <<>>),
                   TotalNulls(df_clean) > 0 \/ sc.X.nan)])
        : r \in
          { [v \in (IF PowerVariantPresent(pt) THEN {"power_transformed"} ELSE {})
                   \cup {"scaled", "combined"}
                   \cup (IF enc.X.p > 0 THEN {"categorical_encoded"} ELSE {})
                   \cup (IF cfg.apply_pca THEN {"pca"} ELSE {})
                   \cup (IF cfg.apply_tsne THEN {"tsne"} ELSE {}) |->
               CASE v = "power_transformed" ->
                        Variant(pt.X.n, numerical_features, pt.X.nan)
                 [] v = "scaled" -> Variant(sc.X.n, numerical_features, sc.X.nan)
                 [] v = "combined" ->
                        Variant(X_combined.n, combined_feature_names, X_combined.nan)
                 [] v = "categorical_encoded" -> Variant(enc.X.n, enc.names, enc.X.nan)
                 [] v = "pca" -> Variant(dr.X_pca.n, PcaNames(dr.X_pca.p), FALSE)
                 [] v = "tsne" -> Variant(dr.X_tsne.n, TsneNames(dr.X_tsne.p), FALSE)] } }
      : TRUE

\* Lines 451-547: steps 7 and 8 and the assembly of the results, after the
\* numerical and the categorical columns went through their stages.
FitCombine(self, spread, id, ft, df_clean, pt, sc, enc, log2) ==
    LET cfg == self.config
        numerical_features == ft.numerical_features
        categorical_features == ft.categorical_features_available
    IN  CHOOSE out \in
          { CHOOSE out2 \in
              { IF dr.failed # "none"
                THEN Outcome([self EXCEPT !.power_transformer = pt.obj,
                                          !.scaler = sc.obj,
                                          !.categorical_encoder = enc.obj,
                                          !.preprocessing_log = log2 \o dr.log],
                             "error", dr.failed, NoResults, df_clean)
                ELSE Outcome([self EXCEPT
                                !.power_transformer = pt.obj,
                                !.scaler = sc.obj,
                                !.categorical_encoder = enc.obj,
                                !.pca = IF cfg.apply_pca THEN dr.pca ELSE @,
                                !.tsne = IF cfg.apply_tsne THEN dr.tsne ELSE @,
                                !.feature_names_ =
                                    [numerical |-> numerical_features,
                                     categorical |-> categorical_features,
                                     categorical_encoded |-> enc.names,
                                     combined |-> c.names],
                                !.fitted = TRUE,
                                !.preprocessing_log =
                                    log2 \o dr.log \o
                                    <<LogEntry("Pipeline Fitting Complete")>>],
                             "ok", "none",
                             FitResults(cfg, df_clean, numerical_features, pt, sc, enc,
                                        c.X, c.names, dr),
                             df_clean)
                : dr \in {ApplyDimensionalityReduction(
                             cfg, c.X, VarianceCurve(Min(c.X.n, c.X.p), spread),
                             id)} } : TRUE
            : c \in { IF enc.X.p > 0
                      THEN [X |-> Matrix(sc.X.n, sc.X.p + enc.X.p, sc.X.nan \/ enc.X.nan),
                            names |-> numerical_features \o enc.names]
                      ELSE [X |-> sc.X, names |-> numerical_features] } } : TRUE

\* Lines 437-449: steps 4 to 6 on the cleaned table.  Each stage assigns its
\* slot of the object as it returns, so a stage that raises leaves the slots
\* of the stages before it assigned.
FitStages(self, spread, id, ft, df_clean, log0) ==
    LET cfg == self.config
    IN  CHOOSE out \in
          { CHOOSE out2 \in
              { IF ~sc.ok
                THEN Outcome([self EXCEPT !.power_transformer = pt.obj,
                                          !.preprocessing_log = log0 \o pt.log],
                             "error", "scaling", NoResults, df_clean)
                ELSE CHOOSE out3 \in
                       { FitCombine(self, spread, id, ft, df_clean, pt, sc, enc,
                                    log0 \o pt.log \o sc.log \o enc.log)
                         : enc \in {EncodeCategoricalFeatures(
                                       cfg, df_clean, ft.categorical_features_available,
                                       id)} } : TRUE
                : sc \in {ApplyScaling(cfg, pt.X, id)} } : TRUE
            : pt \in {ApplyPowerTransformation(
                         cfg, Values(df_clean, ft.numerical_features), id)} } : TRUE

\* fit_transform on object self (lines 412-547): steps 1 and 2, then the
\* stages on the cleaned table.
FitTransform(self, df, spread, id) ==
    CHOOSE out \in
      { CHOOSE out2 \in
          { FitStages(self, spread, id, ft, hm.df_clean,
                      self.preprocessing_log \o ft.log \o hm.log)
            : hm \in {HandleMissingValues(self.config, df, ft)} } : TRUE
        : ft \in {IdentifyFeatureTypes(self.config, df)} } : TRUE

\* ---------------------------------------------------------------- transform
\* transform without its check of the fitted flag.
TransformUnchecked(self) == TRUE

\* The check of line 559: may transform go on?
TransformMayProceed(self) == self.fitted

\* transform taking the numerical columns as identified in the new table.
IdentifiedNumericalFeatures(self, ft) == ft.numerical_features

\* The feature list transform takes the numerical columns from (line 569).
TransformNumericalFeatures(self, ft) == self.feature_names_["numerical"]

\* transform returning a PCA variant when the configuration enables PCA.
VariantsByConfig(self) ==
    {"scaled", "combined"} \cup (IF self.config.apply_pca THEN {"pca"} ELSE {})

\* The variants transform returns (lines 592-613): 'pca' when the pca slot
\* holds an object.
TransformVariants(self) ==
    {"scaled", "combined"} \cup (IF self.pca # None THEN {"pca"} ELSE {})

\* Lines 568-616 of transform, on the cleaned table: the fitted objects
\* applied to the columns named at fit time.  A missing column, a matrix of
\* another width than the object was fitted on, and NaN handed to PCA raise.
TransformApply(self, logged, ft, df_clean) ==
    LET raised == Outcome(logged, "error", "transform", NoResults, df_clean)
        has_names == {"numerical", "categorical", "combined"} \subseteq DOMAIN self.feature_names_
    IN  IF ~has_names THEN raised
        ELSE CHOOSE out \in
          { IF ~(Range(numerical_features) \subseteq Range(df_clean.names)) THEN raised
            ELSE CHOOSE out2 \in
              { LET pt_ok == \/ self.power_transformer = None
                             \/ self.power_transformer.n_features_in = X_scaled.p
                    sc_ok == /\ self.scaler # None
                             /\ self.scaler.n_features_in = X_scaled.p
                             /\ X_scaled.p > 0
                    categorical_features == self.feature_names_["categorical"]
                    enc_ok == \/ self.categorical_encoder = None
                              \/ /\ Range(categorical_features) \subseteq Range(df_clean.names)
                                 /\ self.categorical_encoder.features = categorical_features
                    X_combined == IF self.categorical_encoder # None
                                  THEN Matrix(X_scaled.n,
                                              X_scaled.p + self.categorical_encoder.n_out,
                                              X_scaled.nan)
                                  ELSE X_scaled
                    combined_ok == Len(self.feature_names_["combined"]) = X_combined.p
                    pca_ok == \/ self.pca = None
                              \/ ~X_combined.nan /\ self.pca.n_features_in = X_combined.p
                IN  IF ~(pt_ok /\ sc_ok /\ enc_ok /\ combined_ok /\ pca_ok) THEN raised
                    ELSE Outcome(logged, "ok", "none",
                           [v \in TransformVariants(self) |->
                              CASE v = "scaled" ->
                                       Variant(X_scaled.n, numerical_features, X_scaled.nan)
                                [] v = "combined" ->
                                       Variant(X_combined.n, self.feature_names_["combined"],
                                               X_combined.nan)
                                [] v = "pca" ->
                                       Variant(X_combined.n,
                                               IF self.pca # None
                                               THEN PcaNames(self.pca.n_components)
                                               ELSE <<>>,
                                               FALSE)],
                           df_clean)
                : X_scaled \in {ShapeOf(Values(df_clean, numerical_features))} } : TRUE
            : numerical_features \in {TransformNumericalFeatures(self, ft)} } : TRUE

\* transform on object self (lines 549-618): the check of the fitted flag,
\* the identification and cleaning of the new table (each appends to the
\* log), then the fitted objects.
Transform(self, df) ==
    IF ~TransformMayProceed(self)
    THEN [self |-> self, outcome |-> "error", stage |-> "not fitted",
          results |-> NoResults, clean_nulls |-> 0]
    ELSE CHOOSE out \in
           { CHOOSE out2 \in
               { TransformApply(self,
                                [self EXCEPT !.preprocessing_log = @ \o ft.log \o hm.log],
                                ft, hm.df_clean)
                 : hm \in {HandleMissingValues(self.config, df, ft)} } : TRUE
             : ft \in {IdentifyFeatureTypes(self.config, df)} } : TRUE

\* The values transform computes for row i of the table: the cleaned cells of
\* the fitted columns, and the fitted objects applied to them row by row
\* (lines 566-608).
TransformRow(self, df, i) ==
    LET used == Range(self.feature_names_["numerical"]) \cup
                (IF self.categorical_encoder # None
                 THEN Range(self.feature_names_["categorical"]) ELSE {})
    IN  CHOOSE row \in
          { [applied |-> <<self.power_transformer, self.scaler,
                           self.categorical_encoder, self.pca>>,
             to |-> [c \in used |-> df_clean.cells[c][i]]]
            : df_clean \in
                {HandleMissingValues(self.config, df,
                                     IdentifyFeatureTypes(self.config, df)).df_clean} }
          : TRUE

\* ------------------------------------------------------------ save and load
Components == <<"power_transformer", "scaler", "categorical_encoder", "pca", "tsne">>

\* A record that is not on disk.
Absent == [cls |-> "Absent"]

\* save_pipeline without its check of the fitted flag.
SaveUnchecked(self) == TRUE

\* The check of line 622: may save_pipeline go on?
SaveMayProceed(self) == self.fitted

\* save_pipeline: the files of the path after the call.  The primary record
\* is dumped, then each component that is not None.
SavePipeline(self, disk) ==
    [f \in DOMAIN disk |->
        IF f = "pipeline"
        THEN [cls |-> "pipeline_data",
              config |-> self.config,
              feature_names |-> self.feature_names_,
              preprocessing_log |-> self.preprocessing_log,
              fitted |-> self.fitted]
        ELSE IF self[f] # None THEN self[f] ELSE disk[f]]

\* A load that leaves a slot alone when its component record is not on disk.
LoadPipelineKeeping(self, disk) ==
    [config             |-> disk["pipeline"].config,
     feature_names_     |-> disk["pipeline"].feature_names,
     preprocessing_log  |-> disk["pipeline"].preprocessing_log,
     fitted             |-> disk["pipeline"].fitted,
     power_transformer  |-> IF disk["power_transformer"] # Absent
                            THEN disk["power_transformer"] ELSE self.power_transformer,
     scaler             |-> IF disk["scaler"] # Absent THEN disk["scaler"] ELSE self.scaler,
     categorical_encoder |-> IF disk["categorical_encoder"] # Absent
                             THEN disk["categorical_encoder"]
                             ELSE self.categorical_encoder,
     pca                |-> IF disk["pca"] # Absent THEN disk["pca"] ELSE self.pca,
     tsne               |-> IF disk["tsne"] # Absent THEN disk["tsne"] ELSE self.tsne]

\* A load that restores everything but the fitted flag.
LoadPipelineAsNew(self, disk) ==
    [config             |-> disk["pipeline"].config,
     feature_names_     |-> disk["pipeline"].feature_names,
     preprocessing_log  |-> disk["pipeline"].preprocessing_log,
     fitted             |-> FALSE,
     power_transformer  |-> IF disk["power_transformer"] # Absent
                            THEN disk["power_transformer"] ELSE None,
     scaler             |-> IF disk["scaler"] # Absent THEN disk["scaler"] ELSE None,
     categorical_encoder |-> IF disk["categorical_encoder"] # Absent
                             THEN disk["categorical_encoder"] ELSE None,
     pca                |-> IF disk["pca"] # Absent THEN disk["pca"] ELSE None,
     tsne               |-> IF disk["tsne"] # Absent THEN disk["tsne"] ELSE None]

\* load_pipeline: the object after a load that found the primary record.
LoadPipeline(self, disk) ==
    [config             |-> disk["pipeline"].config,
     feature_names_     |-> disk["pipeline"].feature_names,
     preprocessing_log  |-> disk["pipeline"].preprocessing_log,
     fitted             |-> disk["pipeline"].fitted,
     power_transformer  |-> IF disk["power_transformer"] # Absent
                            THEN disk["power_transformer"] ELSE None,
     scaler             |-> IF disk["scaler"] # Absent THEN disk["scaler"] ELSE None,
     categorical_encoder |-> IF disk["categorical_encoder"] # Absent
                             THEN disk["categorical_encoder"] ELSE None,
     pca                |-> IF disk["pca"] # Absent THEN disk["pca"] ELSE None,
     tsne               |-> IF disk["tsne"] # Absent THEN disk["tsne"] ELSE None]

\* ---------------------------------------------------------------- validation
\* A result mapping is a dict in insertion order: a sequence of named tables,
\* each with its row count and numeric columns.
Item(name, n, cols) == [name |-> name, table |-> [n |-> n, cols |-> cols]]

NamesOf(results) == {results[i].name : i \in DOMAIN results}

ItemOf(results, name) == results[CHOOSE i \in DOMAIN results : results[i].name = name]

NoChecks == [k \in {} |-> TRUE]

\* dataset.isnull().sum().sum()
MissingValues(table) ==
    SumSeq([k \in DOMAIN table.cols |->
               Cardinality({i \in 1..table.n : table.cols[k][i] = NaN})])

\* The missing-value entries with the visualization variant included.
MissingChecksAll(results) ==
    [k \in {results[i].name \o "_no_missing" : i \in DOMAIN results} |->
        \E i \in DOMAIN results :
            /\ results[i].name \o "_no_missing" = k
            /\ MissingValues(results[i].table) = 0]

\* Lines 690-699: one entry per variant other than 'tsne'.
MissingChecks(results) ==
    [k \in {results[i].name \o "_no_missing"
              : i \in {j \in DOMAIN results : results[j].name # "tsne"}} |->
        \E i \in DOMAIN results :
            /\ results[i].name \o "_no_missing" = k
            /\ MissingValues(results[i].table) = 0]

\* (abs(scaled_data.mean()) < 0.1).all(): the mean of the values present in
\* each column, NaN (and so not below 0.1) for a column without values.
MeanCheck(table) ==
    \A k \in DOMAIN table.cols :
       \E vals \in {SelectSeq(table.cols[k], LAMBDA v : v # NaN)} :
          /\ Len(vals) > 0
          /\ 10 * Abs(SumSeq(vals)) < Len(vals) * Unit

\* (abs(scaled_data.std() - 1.0) < 0.1).all(): the sample standard deviation
\* (ddof = 1) of the values present, NaN for fewer than two values.  With m
\* values, 0.9 < std < 1.1 is
\* 81 m (m-1) < 100 (m sum(x^2) - sum(x)^2) < 121 m (m-1) in whole units.
StdCheck(table) ==
    \A k \in DOMAIN table.cols :
       \E vals \in {SelectSeq(table.cols[k], LAMBDA v : v # NaN)} :
       \E m \in {Len(vals)} :
       \E ss \in {100 * (m * SumSeq([i \in 1..m |-> vals[i] * vals[i]])
                         - SumSeq(vals) * SumSeq(vals))} :
          /\ m > 1
          /\ 81 * m * (m - 1) * Unit * Unit < ss
          /\ ss < 121 * m * (m - 1) * Unit * Unit

\* Lines 701-714: the moments of 'scaled' when a StandardScaler is in use.
RangeChecks(self, results) ==
    IF /\ "scaled" \in NamesOf(results)
       /\ self.config.check_feature_ranges
       /\ self.scaler.cls = "StandardScaler"
    THEN "scaled_mean_centered" :> MeanCheck(ItemOf(results, "scaled").table)
         @@ "scaled_unit_variance" :> StdCheck(ItemOf(results, "scaled").table)
    ELSE NoChecks

\* Lines 716-724: every variant's row count against the first variant's.
ShapeChecks(self, results) ==
    IF self.config.check_shape_consistency
    THEN [k \in {results[i].name \o "_shape_consistent" : i \in DOMAIN results} |->
             \E i \in DOMAIN results :
                /\ results[i].name \o "_shape_consistent" = k
                /\ results[i].table.n = results[1].table.n]
    ELSE NoChecks

\* validate_output(results): the mapping returned and the entries logged.
ValidateOutput(self, results) ==
    IF ~self.config.check_missing_values
    THEN [validation_results |-> NoChecks, log |-> <<>>]
    ELSE [validation_results |->
              Update(Update(MissingChecks(results), RangeChecks(self, results)),
                     ShapeChecks(self, results)),
          log |-> <<LogEntry("Validation Complete")>>]

\* ------------------------------------------------------------------- state
VARIABLES
    config,               \* self.config
    feature_names_,       \* self.feature_names_
    preprocessing_log,    \* self.preprocessing_log
    fitted,               \* self.fitted
    power_transformer,    \* self.power_transformer
    scaler,               \* self.scaler
    categorical_encoder,  \* self.categorical_encoder
    pca,                  \* self.pca
    tsne,                 \* self.tsne
    files,                \* the records under the save path
    nfit,                 \* fit_transform calls so far: names the objects a call creates
    call,                 \* the last call: what it was given and what it returned
    fit_columns,          \* the columns returned by the fit_transform call that fitted the object
    saved,                \* the saving object as it was at the last save_pipeline
    probe                 \* the last direct call of one method: its arguments and its return value

object == <<config, feature_names_, preprocessing_log, fitted,
            power_transformer, scaler, categorical_encoder, pca, tsne>>

vars == <<config, feature_names_, preprocessing_log, fitted,
          power_transformer, scaler, categorical_encoder, pca, tsne,
          files, nfit, call, fit_columns, saved, probe>>

\* The pipeline object as one record.
Self ==
    [config |-> config, feature_names_ |-> feature_names_,
     preprocessing_log |-> preprocessing_log, fitted |-> fitted,
     power_transformer |-> power_transformer, scaler |-> scaler,
     categorical_encoder |-> categorical_encoder, pca |-> pca, tsne |-> tsne]

SetSelf(s) ==
    /\ config' = s.config
    /\ feature_names_' = s.feature_names_
    /\ preprocessing_log' = s.preprocessing_log
    /\ fitted' = s.fitted
    /\ power_transformer' = s.power_transformer
    /\ scaler' = s.scaler
    /\ categorical_encoder' = s.categorical_encoder
    /\ pca' = s.pca
    /\ tsne' = s.tsne

\* __init__: a new, empty pipeline object.
NewPipeline(cfg) ==
    [config |-> cfg, feature_names_ |-> [k \in {} |-> <<>>],
     preprocessing_log |-> <<>>, fitted |-> FALSE,
     power_transformer |-> None, scaler |-> None,
     categorical_encoder |-> None, pca |-> None, tsne |-> None]

\* The column names of each variant of a result mapping.
ColumnsOf(results) == [v \in DOMAIN results |-> results[v].columns]

NoColumns == [v \in {} |-> <<>>]

\* A call as the caller sees it: the operation, the column names and row
\* count of the table given, and what came back.
Call(op, df, r) ==
    [op |-> op, given |-> df.names, rows |-> df.n, outcome |-> r.outcome,
     stage |-> r.stage, results |-> r.results, clean_nulls |-> r.clean_nulls]

\* The argument of a call that takes no table.
NoTable == [names |-> <<>>, n |-> 0]

Returned(outcome, stage) ==
    [outcome |-> outcome, stage |-> stage, results |-> NoResults, clean_nulls |-> 0]

InitSelf(s) ==
    /\ config = s.config
    /\ feature_names_ = s.feature_names_
    /\ preprocessing_log = s.preprocessing_log
    /\ fitted = s.fitted
    /\ power_transformer = s.power_transformer
    /\ scaler = s.scaler
    /\ categorical_encoder = s.categorical_encoder
    /\ pca = s.pca
    /\ tsne = s.tsne

\* The fit_transform and transform calls a log records: each appends one
\* "Feature Identification" entry.
CallsLogged(log) == Cardinality({i \in DOMAIN log : log[i].step = "Feature Identification"})

\* No method was called directly.
NoProbe == [fn |-> "none"]

Init ==
    /\ \E cfg \in Configs : InitSelf(NewPipeline(cfg))
    /\ files = [f \in {"pipeline"} \cup Range(Components) |-> Absent]
    /\ nfit = 0
    /\ call = Call("__init__", NoTable, Returned("ok", "none"))
    /\ fit_columns = NoColumns
    /\ saved = Absent
    /\ probe = NoProbe

\* ----------------------------------------------------------------- actions
\* ESGPreprocessingPipeline(config_path): the caller starts over with a new
\* object; the records on disk stay.
Construct(cfg) ==
    /\ SetSelf(NewPipeline(cfg))
    /\ call' = Call("__init__", NoTable, Returned("ok", "none"))
    /\ fit_columns' = NoColumns
    /\ UNCHANGED <<files, nfit, saved, probe>>

\* pipeline.fit_transform(df)
FitTransformCall(df, spread) ==
    /\ nfit < MaxFits
    /\ CallsLogged(preprocessing_log) < MaxCalls
    /\ \E r \in {FitTransform(Self, df, spread, nfit + 1)} :
           /\ SetSelf(r.self)
           /\ call' = Call("fit_transform", df, r)
           /\ fit_columns' = IF r.outcome = "ok" THEN ColumnsOf(r.results) ELSE fit_columns
    /\ nfit' = nfit + 1
    /\ UNCHANGED <<files, saved, probe>>

\* pipeline.transform(df)
TransformCall(df) ==
    /\ CallsLogged(preprocessing_log) < MaxCalls
    /\ \E r \in {Transform(Self, df)} :
           /\ SetSelf(r.self)
           /\ call' = Call("transform", df, r)
    /\ UNCHANGED <<files, nfit, fit_columns, saved, probe>>

\* pipeline.save_pipeline(filepath)
SavePipelineCall ==
    /\ IF SaveMayProceed(Self)
       THEN /\ files' = SavePipeline(Self, files)
            /\ saved' = [cls |-> "saved", self |-> Self, fit_columns |-> fit_columns]
            /\ call' = Call("save_pipeline", NoTable, Returned("ok", "none"))
       ELSE /\ call' = Call("save_pipeline", NoTable, Returned("error", "not fitted"))
            /\ UNCHANGED <<files, saved>>
    /\ UNCHANGED <<object, nfit, fit_columns, probe>>

\* pipeline.load_pipeline(filepath)
LoadPipelineCall ==
    /\ IF files["pipeline"] # Absent
       THEN /\ \E loaded \in {LoadPipeline(Self, files)} : SetSelf(loaded)
            /\ fit_columns' = saved.fit_columns
            /\ call' = Call("load_pipeline", NoTable, Returned("ok", "none"))
       ELSE /\ call' = Call("load_pipeline", NoTable, Returned("error", "no primary record"))
            /\ UNCHANGED <<object, fit_columns>>
    /\ UNCHANGED <<files, nfit, saved, probe>>

\* One pipeline object in memory, fitted and applied to the full range of
\* tables.
Next ==
    \/ \E cfg \in Configs : Construct(cfg)
    \/ \E df \in FitData, spread \in {1, MaxRows} : FitTransformCall(df, spread)
    \/ \E df \in NewData : TransformCall(df)

Spec == Init /\ [][Next]_vars

\* The tables of the runs that also save and load.
StoredFitData ==
    { DF(MaxRows, <<"Revenue", "MarketCap">>, <<"skew", "sym">>),
      DF(MaxRows, <<"Revenue", "MarketCap">>, <<"sym", "sym">>),
      DF(MaxRows, <<"Revenue", "Industry">>, <<"gaplo", "gapc">>) }

StoredNewData ==
    { DF(MaxRows, <<"MarketCap", "Revenue">>, <<"sym", "gaplo">>),
      DF(2,       <<"Revenue", "Industry">>, <<"sym", "new">>) }

\* Pipeline objects that are fitted, saved to one path, loaded from it and
\* applied.
NextDisk ==
    \/ \E cfg \in Configs : Construct(cfg)
    \/ \E df \in StoredFitData, spread \in {1, MaxRows} : FitTransformCall(df, spread)
    \/ \E df \in StoredNewData : TransformCall(df)
    \/ SavePipelineCall
    \/ LoadPipelineCall

SpecDisk == Init /\ [][NextDisk]_vars

\* pipeline.fit_transform(df) in the runs that fit again and again.
RefitCall(df, spread) ==
    /\ nfit < MaxRefits
    /\ \E r \in {FitTransform(Self, df, spread, nfit + 1)} :
           /\ SetSelf(r.self)
           /\ call' = Call("fit_transform", df, r)
           /\ fit_columns' = IF r.outcome = "ok" THEN ColumnsOf(r.results) ELSE fit_columns
    /\ nfit' = nfit + 1
    /\ UNCHANGED <<files, saved, probe>>

\* pipeline.validate_output({}), once per log: the object is read, the
\* summary entry appended.
ValidateOutputInUse ==
    /\ \A i \in DOMAIN preprocessing_log :
          preprocessing_log[i].step # "Validation Complete"
    /\ \E out \in {ValidateOutput(Self, <<>>)} :
          SetSelf([Self EXCEPT !.preprocessing_log = @ \o out.log])
    /\ call' = Call("validate_output", NoTable, Returned("ok", "none"))
    /\ UNCHANGED <<files, nfit, fit_columns, saved, probe>>

\* get_preprocessing_summary (lines 734-758): the error mapping for an
\* unfitted pipeline, the summary otherwise; nothing is assigned.
GetPreprocessingSummary(self) ==
    IF ~self.fitted THEN Returned("ok", "not fitted") ELSE Returned("ok", "none")

\* pipeline.get_preprocessing_summary()
GetPreprocessingSummaryCall ==
    /\ call' = Call("get_preprocessing_summary", NoTable, GetPreprocessingSummary(Self))
    /\ UNCHANGED <<object, files, nfit, fit_columns, saved, probe>>

\* Pipeline objects with and without dimensionality reduction that are
\* fitted, saved to one path, loaded from it and fitted again.
NextRefit ==
    \/ \E cfg \in {SmallConfig, PlainConfig} : Construct(cfg)
    \/ \E df \in StoredFitData : RefitCall(df, MaxRows)
    \/ SavePipelineCall
    \/ LoadPipelineCall

SpecRefit == Init /\ [][NextRefit]_vars

\* The tables of the runs that call every public method.
UseFitData ==
    { DF(MaxRows, <<"Revenue", "MarketCap">>, <<"skew", "sym">>),
      DF(MaxRows, <<"Revenue">>, <<"allnan">>) }

\* One pipeline object on which every public method is called, in any order.
NextUse ==
    \/ \E cfg \in {SmallConfig, PlainConfig} : Construct(cfg)
    \/ \E df \in UseFitData : FitTransformCall(df, MaxRows)
    \/ \E df \in UseFitData : TransformCall(df)
    \/ SavePipelineCall
    \/ LoadPipelineCall
    \/ ValidateOutputInUse
    \/ GetPreprocessingSummaryCall

SpecUse == Init /\ [][NextUse]_vars

\* The directory of the path loses the record of one stage object: each of
\* the five component records is optional on disk (lines 667-674).
RemoveComponentRecord(f) ==
    /\ files[f] # Absent
    /\ files' = [files EXCEPT ![f] = Absent]
    /\ UNCHANGED <<object, nfit, call, fit_columns, saved, probe>>

\* Pipeline objects saved to and loaded from a path whose component records
\* come and go.
NextStore ==
    \/ \E cfg \in {SmallConfig, PlainConfig} : Construct(cfg)
    \/ \E df \in UseFitData : FitTransformCall(df, MaxRows)
    \/ \E df \in UseFitData : TransformCall(df)
    \/ SavePipelineCall
    \/ LoadPipelineCall
    \/ \E f \in Range(Components) : RemoveComponentRecord(f)

SpecStore == Init /\ [][NextStore]_vars

\* ------------------------------------------------- methods called directly
\* The numeric columns of n rows with cells 0, one unit or missing.
Columns(n) == [1..n -> {0, Unit, NaN}]

\* The matrices handed to _apply_power_transformation: no column, one
\* column, or a column next to a symmetric, a skewed or a constant one.
SkewMatrices ==
    {[n |-> MaxRows, cols |-> <<>>]}
    \cup UNION {{[n |-> n, cols |-> <<c>>] : c \in Columns(n)} : n \in 1..MaxRows}
    \cup UNION {{[n |-> n, cols |-> <<c, Pattern(p, n)>>]
                    : c \in Columns(n), p \in {"sym", "skew", "years"}}
                 : n \in 1..MaxRows}

\* A user configuration with a skewness threshold of 0.5.
HalfThresholdConfig == [PlainConfig EXCEPT !.skewness_threshold = [num |-> 1, den |-> 2]]

\* pipeline = ESGPreprocessingPipeline(config); the method is called on the
\* new object, whose log holds what the method appended.  One object gets
\* one such call.
Probed(cfg, log) ==
    /\ probe = NoProbe
    /\ SetSelf([NewPipeline(cfg) EXCEPT !.preprocessing_log = log])

\* pipeline._apply_power_transformation(X, feature_names)
PowerTransformationCall(cfg, X) ==
    /\ probe = NoProbe
    /\ \E out \in {ApplyPowerTransformation(cfg, X, 1)} :
          /\ Probed(cfg, out.log)
          /\ probe' = [fn |-> "_apply_power_transformation", X |-> X, out |-> out]
    /\ UNCHANGED <<files, nfit, call, fit_columns, saved>>

\* pca_n_components as configured: the fractions 0.5, 0.95 and 1.0, the
\* integers 1 and 2, the float 2.5.
PcaTargets ==
    {[isfloat |-> TRUE, x100 |-> 50], [isfloat |-> TRUE, x100 |-> 95],
     [isfloat |-> TRUE, x100 |-> 100], [isfloat |-> FALSE, x100 |-> 100],
     [isfloat |-> FALSE, x100 |-> 200], [isfloat |-> TRUE, x100 |-> 250]}

\* User configurations of the dimensionality reduction.
ReductionConfigs ==
    {[DefaultConfig EXCEPT !.apply_pca = on[1], !.apply_tsne = on[2],
                           !.pca_n_components = t, !.pca_min_components = mn]
       : on \in {<<TRUE, TRUE>>, <<TRUE, FALSE>>, <<FALSE, TRUE>>},
         t \in PcaTargets, mn \in {1, 3, 5}}

\* pipeline._apply_dimensionality_reduction(X, feature_names) on a matrix
\* whose variance lies evenly in its first `spread` components.
ReductionCall(cfg, X, spread) ==
    /\ probe = NoProbe
    /\ \E curve \in {VarianceCurve(Min(X.n, X.p), spread)} :
       \E out \in {ApplyDimensionalityReduction(cfg, X, curve, 1)} :
          /\ Probed(cfg, out.log)
          /\ probe' = [fn |-> "_apply_dimensionality_reduction", X |-> X,
                        curve |-> curve, out |-> out]
    /\ UNCHANGED <<files, nfit, call, fit_columns, saved>>

\* The columns of a 'scaled' table of n rows: cells -1.0, 0.0 and 1.0, a
\* column without values, and a column whose first cell is missing.
ScaledColumns(n) ==
    [1..n -> {0 - Unit, 0, Unit}]
    \cup {[i \in 1..n |-> NaN],
          [i \in 1..n |-> IF i = 1 THEN NaN ELSE (((i - 2) % 3) - 1) * Unit]}

\* A row count other than n.
OtherRows(n) == (n % MaxRows) + 1

\* Result mappings, in several insertion orders: 'scaled' with any column,
\* the other variants complete or with a missing cell, with or without the
\* rows of 'scaled'.
ResultMappings ==
    UNION {UNION {
        LET scaled == Item("scaled", n, <<c>>)
            pcas == {Item("pca", n, <<[i \in 1..n |-> 0]>>),
                     Item("pca", OtherRows(n), <<[i \in 1..OtherRows(n) |-> NaN]>>)}
            tsnes == {Item("tsne", n, <<[i \in 1..n |-> NaN]>>),
                      Item("tsne", OtherRows(n), <<[i \in 1..OtherRows(n) |-> 0]>>)}
        IN  {<<>>, <<scaled>>}
            \cup {<<pc>> : pc \in pcas}
            \cup {<<ts, scaled>> : ts \in tsnes}
            \cup {<<scaled, pc, ts>> : pc \in pcas, ts \in tsnes}
            \cup {<<ts, pc, scaled>> : pc \in pcas, ts \in tsnes}
    : c \in ScaledColumns(n)} : n \in 1..MaxRows}

\* Every combination of the three validation switches, with standard and
\* with robust scaling.
ValidationConfigs ==
    {[DefaultConfig EXCEPT !.scaling_method = m, !.check_missing_values = b[1],
                           !.check_feature_ranges = b[2],
                           !.check_shape_consistency = b[3]]
       : m \in {"standard", "robust"}, b \in [1..3 -> BOOLEAN]}

\* pipeline.validate_output(results) on a pipeline whose scaler slot holds
\* the scaler of its configuration, as fit_transform leaves it.
ValidateOutputCall(cfg, results) ==
    /\ probe = NoProbe
    /\ \E self \in {[NewPipeline(cfg) EXCEPT
                         !.scaler = [cls |-> ScalerClass(cfg), fit |-> 1,
                                     n_features_in |-> 1]]} :
       \E out \in {ValidateOutput(self, results)} :
          /\ SetSelf([self EXCEPT !.preprocessing_log = out.log])
          /\ probe' = [fn |-> "validate_output", results |-> results, out |-> out]
    /\ UNCHANGED <<files, nfit, call, fit_columns, saved>>

\* A user configuration that fills numerical gaps with the mode.
ModeConfig == [PlainConfig EXCEPT !.missing_strategy_numerical = "mode"]

\* Tables of a numerical and a categorical column, in either column order,
\* complete and with gaps.
GapTables ==
    UNION {{[names |-> names, n |-> n,
             cells |-> [c \in Range(names) |->
                          IF c = "Revenue" THEN col ELSE Pattern(q, n)]]
              : names \in {<<"Revenue", "Industry">>, <<"Industry", "Revenue">>},
                col \in Columns(n), q \in {"two", "one", "gapc"}}
           : n \in 1..MaxRows}

\* pipeline._handle_missing_values(df, feature_types), with the feature types
\* _identify_feature_types gives for df.
HandleMissingValuesCall(cfg, df) ==
    /\ probe = NoProbe
    /\ \E ft \in {IdentifyFeatureTypes(cfg, df)} :
       \E out \in {HandleMissingValues(cfg, df, ft)} :
          /\ Probed(cfg, out.log)
          /\ probe' = [fn |-> "_handle_missing_values", df |-> df, out |-> out]
    /\ UNCHANGED <<files, nfit, call, fit_columns, saved>>

\* Methods of a new pipeline object called one at a time.
NextMethods ==
    \/ /\ probe = NoProbe
       /\ \E cfg \in {DefaultConfig, AltConfig, HalfThresholdConfig}, X \in SkewMatrices :
             PowerTransformationCall(cfg, X)
    \/ /\ probe = NoProbe
       /\ \E cfg \in ReductionConfigs, n \in 1..MaxSide, p \in 1..MaxSide, nan \in BOOLEAN :
             \E spread \in 0..Min(n, p) : ReductionCall(cfg, Matrix(n, p, nan), spread)
    \/ /\ probe = NoProbe
       /\ \E cfg \in ValidationConfigs, results \in ResultMappings :
             ValidateOutputCall(cfg, results)
    \/ /\ probe = NoProbe
       /\ \E cfg \in {DefaultConfig, AltConfig, ModeConfig}, df \in GapTables :
             HandleMissingValuesCall(cfg, df)

SpecMethods == Init /\ [][NextMethods]_vars

\* ------------------------------------------------------------------ claims
\* C1: transform on a pipeline whose fitted flag is false raises, and the
\* call changes nothing of the object: the log, the five slots, the
\* feature-name lists and the fitted flag stay as they were.
C1_TransformBeforeFitRaises ==
    [][(call'.op = "transform" /\ ~fitted)
          => (call'.outcome = "error" /\ UNCHANGED object)]_vars

\* A transform was called on an unfitted pipeline and raised.
C1_Witness ==
    /\ call.op = "transform"
    /\ call.stage = "not fitted"
    /\ call.outcome = "error"
    /\ ~fitted

\* C2: save_pipeline on a pipeline whose fitted flag is false raises before
\* anything is written: no record under the path is created or changed.
C2_SaveBeforeFitRaises ==
    [][(call'.op = "save_pipeline" /\ ~fitted)
          => (call'.outcome = "error" /\ UNCHANGED files)]_vars

\* A save_pipeline was called on an unfitted pipeline and raised, with
\* records of an earlier save on disk.
C2_Witness ==
    /\ call.op = "save_pipeline"
    /\ call.outcome = "error"
    /\ ~fitted
    /\ files["pipeline"] # Absent

\* The loaded object has the fitted flag, the feature-name lists and the
\* five stage slots the saving object had at its last save, and transform
\* gives on each held-out table what the saving object would have given.
LoadedAsSaved(loaded, saving) ==
    /\ loaded.fitted = saving.fitted
    /\ loaded.feature_names_ = saving.feature_names_
    /\ \A k \in DOMAIN Components : loaded[Components[k]] = saving[Components[k]]
    /\ \A df \in StoredNewData :
          /\ Transform(loaded, df).outcome = Transform(saving, df).outcome
          /\ Transform(loaded, df).results = Transform(saving, df).results

\* C3: round-trip persistence.  After any sequence of fit_transform and
\* save_pipeline calls, re-fits and repeated saves to the same path included,
\* a fresh pipeline that loads the path has the fitted flag, the
\* feature-name lists and the content of each of the five stage slots that
\* the saving object had at its last save, and so the same transform output.
C3_LoadRestoresLastSave ==
    [][(call.op = "__init__" /\ call'.op = "load_pipeline" /\ call'.outcome = "ok")
          => LoadedAsSaved(Self', saved'.self)]_vars

\* C4: the pipeline is never partially fitted: after a fit_transform call
\* that failed, at whatever stage, on a first fit or on a re-fit, the fitted
\* flag is false.
C4_FailedFitLeavesUnfitted ==
    (call.op = "fit_transform" /\ call.outcome = "error") => ~fitted

\* C5: a successful transform call leaves the configuration, the five stage
\* slots, the feature-name lists, the fitted flag and the processing log
\* exactly as they were before the call.
C5_TransformReadOnly ==
    [][(call'.op = "transform" /\ call'.outcome = "ok") => UNCHANGED object]_vars

\* C6: the table _handle_missing_values returns has no missing value,
\* whatever the table and however its columns were classified.
C6_NoMissingAfterImputation ==
    (call.op \in {"fit_transform", "transform"} /\ call.stage # "not fitted")
        => call.clean_nulls = 0

\* The cells of row i of the table in the columns the fitted pipeline reads.
RawRow(self, df, i) ==
    [c \in Range(self.feature_names_["numerical"]) \cup
           (IF self.categorical_encoder # None
            THEN Range(self.feature_names_["categorical"]) ELSE {}) |-> df.cells[c][i]]

\* C7: transform uses only fit-time parameters.  For the fitted object as it
\* stands, two rows with the same cells get the same values from transform,
\* whatever the other rows of their tables are: no fill value, skew
\* transform, scaler, encoder or projection comes from the new table.
C7_TransformRowIndependent ==
    fitted =>
        \A d1 \in NewData, d2 \in NewData :
            (Transform(Self, d1).outcome = "ok" /\ Transform(Self, d2).outcome = "ok")
            => \A i \in 1..d1.n, j \in 1..d2.n :
                  RawRow(Self, d1, i) = RawRow(Self, d2, j)
                  => TransformRow(Self, d1, i) = TransformRow(Self, d2, j)

\* C8: when transform accepts a table, its 'combined' variant has the column
\* names, in order, of the 'combined' variant returned by the fit_transform
\* call that fitted the pipeline, and its 'scaled' variant has the numerical
\* feature list of that fit.
C8_TransformColumnsAsFitted ==
    (call.op = "transform" /\ call.outcome = "ok")
        => /\ call.results["combined"].columns = fit_columns["combined"]
           /\ call.results["scaled"].columns = fit_columns["scaled"]

\* A fitted pipeline accepted a table whose columns come in another order
\* than in the fitting table.
C8_Witness ==
    /\ call.op = "transform"
    /\ call.outcome = "ok"
    /\ call.given = <<"MarketCap", "Revenue">>
    /\ call.results["scaled"].columns = <<"Revenue", "MarketCap">>

\* C9: every variant returned by fit_transform has as many rows as the input
\* table, and every variant returned by transform as many rows as the new
\* table, whatever the size of the fitting table.
C9_RowCountPreserved ==
    (call.op \in {"fit_transform", "transform"} /\ call.outcome = "ok")
        => \A v \in DOMAIN call.results : call.results[v].n = call.rows

\* A pipeline fitted on MaxRows rows returned variants for a table of two
\* rows.
C9_Witness ==
    /\ call.op = "transform"
    /\ call.outcome = "ok"
    /\ call.rows = 2
    /\ call.rows < MaxRows
    /\ DOMAIN call.results # {}

\* C10: the variants fit_transform returns: 'scaled', 'combined' and
\* 'complete' always; 'power_transformed' exactly when a power transform was
\* fitted and applied in the call; 'categorical_encoded' exactly when the
\* encoded matrix has a column; 'pca' exactly when PCA is enabled; 'tsne'
\* exactly when t-SNE is enabled.
C10_VariantSet ==
    (call.op = "fit_transform" /\ call.outcome = "ok")
        => DOMAIN call.results =
              {"scaled", "combined", "complete"}
              \cup (IF power_transformer # None THEN {"power_transformed"} ELSE {})
              \cup (IF Len(feature_names_["categorical_encoded"]) > 0
                    THEN {"categorical_encoded"} ELSE {})
              \cup (IF config.apply_pca THEN {"pca"} ELSE {})
              \cup (IF config.apply_tsne THEN {"tsne"} ELSE {})

\* C11: skew reduction is one joint decision.  _apply_power_transformation
\* returns a fitted transform exactly when the power transform is enabled and
\* some column has |skewness| >= the threshold; it is then fitted on and
\* applied to every column; otherwise the matrix comes back as it went in and
\* no transform object is returned.
C11_JointSkewDecision ==
    probe.fn = "_apply_power_transformation" =>
        LET X == probe.X
            qualifies == \E k \in DOMAIN X.cols :
                            HighSkew(X.cols[k], config.skewness_threshold)
        IN  /\ (probe.out.obj # None) <=> (config.apply_power_transform /\ qualifies)
            /\ probe.out.obj # None =>
                  /\ probe.out.transformed = DOMAIN X.cols
                  /\ probe.out.obj.n_features_in = Len(X.cols)
            /\ probe.out.obj = None =>
                  /\ probe.out.transformed = {}
                  /\ probe.out.X = ShapeOf(X)

\* A matrix with a skewed column (0, 0, 0, 1) next to a symmetric one was
\* transformed in both columns.
C11_Witness ==
    /\ probe.fn = "_apply_power_transformation"
    /\ Len(probe.X.cols) = 2
    /\ HighSkew(probe.X.cols[1], config.skewness_threshold)
    /\ ~HighSkew(probe.X.cols[2], config.skewness_threshold)
    /\ probe.out.obj # None
    /\ probe.out.transformed = {1, 2}

\* "t-SNE Application" entries of a log: the runs of the visualization
\* embedding it records.
TsneRuns(log) == Cardinality({i \in DOMAIN log : log[i].step = "t-SNE Application"})

\* C12: a successful transform returns exactly 'scaled' and 'combined', and
\* 'pca' exactly when the pca slot holds a fitted projection; never 'tsne',
\* 'complete' or 'categorical_encoded'.  It does not run the visualization
\* embedding and replaces none of the five stage slots.
C12_TransformVariants ==
    [][(call'.op = "transform" /\ call'.outcome = "ok")
          => /\ DOMAIN call'.results =
                   {"scaled", "combined"} \cup (IF pca # None THEN {"pca"} ELSE {})
             /\ TsneRuns(preprocessing_log') = TsneRuns(preprocessing_log)
             /\ UNCHANGED <<power_transformer, scaler, categorical_encoder, pca, tsne>>]_vars

\* A pipeline fitted with PCA and t-SNE returned 'pca' and no 'tsne' from
\* transform.
C12_Witness ==
    /\ call.op = "transform"
    /\ call.outcome = "ok"
    /\ pca # None
    /\ tsne # None
    /\ categorical_encoder # None
    /\ DOMAIN call.results = {"scaled", "combined", "pca"}

\* The smallest component counts whose cumulative explained variance, in
\* hundredths, reaches x100: empty when none does.
SmallestReaching(curve, x100) ==
    {k \in DOMAIN curve :
        /\ \A i \in 1..k : curve[i] # NaN
        /\ SumSeq(SubSeq(curve, 1, k)) >= x100
        /\ \A h \in 1..(k - 1) : SumSeq(SubSeq(curve, 1, h)) < x100}

\* C13: with PCA enabled and a fraction f <= 1.0 as target, the PCA that is
\* fitted has max(k, pca_min_components) components, k being the smallest
\* count whose cumulative explained variance is >= f.
C13_ComponentFloor ==
    (/\ probe.fn = "_apply_dimensionality_reduction"
     /\ config.apply_pca
     /\ config.pca_n_components.isfloat
     /\ config.pca_n_components.x100 <= 100
     /\ probe.out.pca # None)
    => \A k \in SmallestReaching(probe.curve, config.pca_n_components.x100) :
          probe.out.pca.n_components = Max(k, config.pca_min_components)

\* A matrix that reaches 95% at 2 components was fitted with the minimum of
\* 5 components.
C13_Witness ==
    /\ probe.fn = "_apply_dimensionality_reduction"
    /\ config.pca_n_components = [isfloat |-> TRUE, x100 |-> 95]
    /\ config.pca_min_components = 5
    /\ SmallestReaching(probe.curve, 95) = {2}
    /\ probe.out.pca # None
    /\ probe.out.pca.n_components = 5

\* C14: a float target <= 1.0, 1.0 included, is an explained-variance
\* fraction whose selection is floored at pca_min_components; an integer
\* target, 1 included, or a float > 1.0 truncated to an integer, is the
\* component count itself, with no floor.
C14_TargetByType ==
    (/\ probe.fn = "_apply_dimensionality_reduction"
     /\ config.apply_pca
     /\ probe.out.pca # None)
    => IF config.pca_n_components.isfloat /\ config.pca_n_components.x100 <= 100
       THEN /\ probe.out.pca.n_components >= config.pca_min_components
            /\ probe.out.pca.n_components > config.pca_min_components
                  => probe.out.pca.n_components
                        \in SmallestReaching(probe.curve, config.pca_n_components.x100)
       ELSE probe.out.pca.n_components = config.pca_n_components.x100 \div 100

\* The integer 1 with a minimum of 5 was fitted as one component.
C14_Witness ==
    /\ probe.fn = "_apply_dimensionality_reduction"
    /\ config.pca_n_components = [isfloat |-> FALSE, x100 |-> 100]
    /\ config.pca_min_components = 5
    /\ probe.out.pca # None
    /\ probe.out.pca.n_components = 1

\* The check names validate_output would return if each of its three checks
\* ran exactly when its own switch is on.
ExpectedChecks ==
    (IF config.check_missing_values
     THEN {n \o "_no_missing" : n \in NamesOf(probe.results) \ {"tsne"}} ELSE {})
    \cup (IF /\ config.check_feature_ranges
             /\ scaler.cls = "StandardScaler"
             /\ "scaled" \in NamesOf(probe.results)
          THEN {"scaled_mean_centered", "scaled_unit_variance"} ELSE {})
    \cup (IF config.check_shape_consistency
          THEN {n \o "_shape_consistent" : n \in NamesOf(probe.results)} ELSE {})

C16_FailuresReported ==
    probe.fn = "validate_output"
    => /\ \A k \in DOMAIN probe.out.validation_results :
             probe.out.validation_results[k] \in BOOLEAN
       /\ "tsne_no_missing" \notin DOMAIN probe.out.validation_results
       /\ \A i \in DOMAIN probe.results :
             /\ (config.check_missing_values /\ probe.results[i].name # "tsne")
                   => /\ probe.results[i].name \o "_no_missing"
                            \in DOMAIN probe.out.validation_results
                      /\ probe.out.validation_results[probe.results[i].name \o "_no_missing"]
                            = (\A k \in DOMAIN probe.results[i].table.cols :
                                  ~HasNaN(probe.results[i].table.cols[k]))
             /\ (config.check_missing_values /\ config.check_shape_consistency)
                   => probe.results[i].name \o "_shape_consistent"
                         \in DOMAIN probe.out.validation_results
             /\ probe.results[i].name \o "_shape_consistent"
                      \in DOMAIN probe.out.validation_results
                   => probe.out.validation_results[probe.results[i].name \o "_shape_consistent"]
                         = (probe.results[i].table.n = probe.results[1].table.n)
       /\ config.check_missing_values
             => preprocessing_log = <<LogEntry("Validation Complete")>>

\* A mapping led by 'tsne' whose 'scaled' variant has a missing cell and
\* whose 'pca' variant has another row count was validated: the failures are
\* FALSE entries of the mapping returned.
C16_Witness ==
    /\ probe.fn = "validate_output"
    /\ Len(probe.results) = 3
    /\ probe.results[1].name = "tsne"
    /\ DOMAIN probe.out.validation_results
          = {"scaled_no_missing", "pca_no_missing", "scaled_mean_centered",
             "scaled_unit_variance", "tsne_shape_consistent",
             "pca_shape_consistent", "scaled_shape_consistent"}
    /\ ~probe.out.validation_results["scaled_no_missing"]
    /\ ~probe.out.validation_results["pca_shape_consistent"]
    /\ probe.out.validation_results["scaled_shape_consistent"]
    /\ probe.out.validation_results["scaled_mean_centered"]
    /\ probe.out.validation_results["scaled_unit_variance"]

\* C17: a fit_transform that fits no encoder (no categorical column, or an
\* encoding method other than 'onehot') returns 'combined' equal to 'scaled'
\* and no 'categorical_encoded' variant; a transform that follows it returns
\* 'combined' with the same columns, and completes on a table with the
\* columns of the fitted one and no missing cell left after cleaning.
C17_NoEncoderPath ==
    [][/\ (call'.op = "fit_transform" /\ call'.outcome = "ok"
           /\ categorical_encoder' = None)
          => /\ call'.results["combined"] = call'.results["scaled"]
             /\ "categorical_encoded" \notin DOMAIN call'.results
             /\ feature_names_'["categorical_encoded"] = <<>>
       /\ (call.op = "fit_transform" /\ call.outcome = "ok"
           /\ categorical_encoder = None /\ call'.op = "transform")
          => /\ call'.outcome = "ok"
                => call'.results["combined"].columns = call.results["combined"].columns
             /\ (call'.given = call.given /\ call'.clean_nulls = 0)
                => call'.outcome = "ok"]_vars

\* A pipeline configured with the 'label' encoding was fitted on a table with
\* a categorical column and then transformed it: no encoder, and 'combined'
\* has the scaled numerical column alone.
C17_Witness ==
    /\ call.op = "transform"
    /\ call.outcome = "ok"
    /\ config.categorical_encoding = "label"
    /\ call.given = <<"Revenue", "Industry">>
    /\ categorical_encoder = None
    /\ feature_names_["categorical"] = <<"Industry">>
    /\ call.results["combined"].columns = <<"Revenue">>

\* The five stage slots of an object.
SlotsOf(self) == [f \in Range(Components) |-> self[f]]

\* The five stage slots as a load from the records on disk fills them: the
\* stored object where the component record exists, None where it does not.
SlotsOnDisk(disk) ==
    [f \in Range(Components) |-> IF disk[f] # Absent THEN disk[f] ELSE None]

\* C18: a load_pipeline that finds the primary record returns, with each of
\* the five stage slots holding the stored object if the slot's component
\* record exists and None if it does not, whatever the slot held before; a
\* load_pipeline that finds no primary record raises and leaves the object
\* as it was.
C18_LoadAbsentTolerant ==
    [][call'.op = "load_pipeline"
       => IF files["pipeline"] # Absent
          THEN /\ call'.outcome = "ok"
               /\ SlotsOf(Self') = SlotsOnDisk(files)
          ELSE /\ call'.outcome = "error"
               /\ UNCHANGED object]_vars

\* A load found the primary and the scaler record but no PCA record, after a
\* second fit: the scaler slot holds the stored scaler, the PCA slot None.
C18_Witness ==
    /\ call.op = "load_pipeline"
    /\ call.outcome = "ok"
    /\ nfit = MaxFits
    /\ files["pca"] = Absent
    /\ pca = None
    /\ files["scaler"] # Absent
    /\ scaler = files["scaler"]

\* C19: whenever the t-SNE stage is reached on a matrix of n >= 1 rows, the
\* perplexity handed to TSNE is strictly positive and strictly less than n.
C19_PerplexityValid ==
    (/\ probe.fn = "_apply_dimensionality_reduction"
     /\ config.apply_tsne
     /\ config.tsne_perplexity >= 1
     /\ probe.X.n >= 1
     /\ probe.out.failed # "pca")
    => /\ Perplexity(config, probe.X.n) > 0
       /\ Perplexity(config, probe.X.n) < probe.X.n

\* C20: on a table without a missing value _handle_missing_values returns
\* the table as it is (same values, shape, column order and row order) and
\* logs the single entry 'Missing Values Check'.
C20_ImputationIdentity ==
    (/\ probe.fn = "_handle_missing_values"
     /\ \A c \in Range(probe.df.names), i \in 1..probe.df.n :
           ~IsNull(c, probe.df.cells[c][i]))
    => /\ probe.out.df_clean = probe.df
       /\ preprocessing_log = <<LogEntry("Missing Values Check")>>

\* A complete table of MaxRows rows with two distinct numerical values went
\* through _handle_missing_values.
C20_Witness ==
    /\ probe.fn = "_handle_missing_values"
    /\ probe.df.n = MaxRows
    /\ probe.df.names = <<"Industry", "Revenue">>
    /\ {probe.df.cells["Revenue"][i] : i \in 1..MaxRows} = {0, Unit}
    /\ probe.df.cells["Industry"] = Pattern("two", MaxRows)
    /\ probe.out.df_clean = probe.df
    /\ preprocessing_log = <<LogEntry("Missing Values Check")>>

\* The place of a log entry in the order of the stages of fit_transform.
StageRank(step) ==
    CASE step = "Feature Identification" -> 1
      [] step \in {"Missing Values Check", "Missing Values Detection"} -> 2
      [] step = "Missing Values Handling" -> 3
      [] step \in {"Skewness Analysis", "Power Transformation"} -> 4
      [] step = "Feature Scaling" -> 5
      [] step = "Categorical Encoding" -> 6
      [] step = "PCA Application" -> 7
      [] step = "t-SNE Application" -> 8
      [] step = "Pipeline Fitting Complete" -> 9
      [] OTHER -> 0

\* The steps of the entries a call appended to the log.
StepsAdded(before, after) ==
    [i \in 1..(Len(after) - Len(before)) |-> after[Len(before) + i].step]

\* C21: a successful fit_transform appends its entries in stage order, from
\* 'Feature Identification' to 'Pipeline Fitting Complete' as the last one,
\* with fitted set; the PCA and t-SNE entries are there exactly when the
\* stage is enabled; and no call other than load_pipeline removes or
\* reorders an entry the log already holds.
C21_LogInStageOrder ==
    [][/\ call'.op \notin {"load_pipeline", "__init__"}
          => /\ Len(preprocessing_log') >= Len(preprocessing_log)
             /\ SubSeq(preprocessing_log', 1, Len(preprocessing_log)) = preprocessing_log
       /\ (call'.op = "fit_transform" /\ call'.outcome = "ok")
          => \E added \in {StepsAdded(preprocessing_log, preprocessing_log')} :
                /\ Len(added) >= 4
                /\ \A i \in 1..(Len(added) - 1) :
                      /\ StageRank(added[i]) > 0
                      /\ StageRank(added[i]) < StageRank(added[i + 1])
                /\ added[1] = "Feature Identification"
                /\ StageRank(added[2]) = 2
                /\ "Feature Scaling" \in Range(added)
                /\ added[Len(added)] = "Pipeline Fitting Complete"
                /\ ("PCA Application" \in Range(added)) = config'.apply_pca
                /\ ("t-SNE Application" \in Range(added)) = config'.apply_tsne
                /\ ("Categorical Encoding" \in Range(added)) = (categorical_encoder' # None)
                /\ ("Power Transformation" \in Range(added)) = (power_transformer' # None)
                /\ fitted']_vars

\* A second fit_transform went through every stage: its nine entries follow
\* those of the calls before it.
C21_Witness ==
    /\ call.op = "fit_transform"
    /\ call.outcome = "ok"
    /\ Len(preprocessing_log) > 9
    /\ [i \in 1..9 |-> preprocessing_log[Len(preprocessing_log) - 9 + i].step]
          = <<"Feature Identification", "Missing Values Detection",
              "Missing Values Handling", "Power Transformation", "Feature Scaling",
              "Categorical Encoding", "PCA Application", "t-SNE Application",
              "Pipeline Fitting Complete">>

\* C22: after a successful fit_transform on a pipeline that was already
\* fitted or loaded, the feature-name lists are those of this call and each
\* of the five stage slots holds an object fitted in this call or None.
C22_RefitOverwrites ==
    [][(fitted /\ call'.op = "fit_transform" /\ call'.outcome = "ok")
       => /\ feature_names_'["combined"] = call'.results["combined"].columns
          /\ feature_names_'["numerical"] = call'.results["scaled"].columns
          /\ \A f \in Range(Components) :
                Self'[f] = None \/ Self'[f].fit = nfit']_vars

\* C23: a new pipeline is not fitted, and once fitted is true no call on the
\* pipeline, successful or failing, sets it back to false.
C23_FittedMonotone ==
    [][/\ call'.op = "__init__" => ~fitted'
       /\ (fitted /\ call'.op # "__init__") => fitted']_vars

\* A fit_transform on a fitted pipeline failed and the pipeline is still
\* fitted.
C23_Witness ==
    /\ call.op = "fit_transform"
    /\ call.outcome = "error"
    /\ nfit > 1
    /\ fitted

\* C24: in every reachable state a fitted pipeline has what transform
\* dereferences without a check: a scaler in its slot and the 'numerical',
\* 'categorical' and 'combined' feature-name lists.
C24_FittedIsUsable ==
    fitted => /\ scaler # None
              /\ {"numerical", "categorical", "combined"} \subseteq DOMAIN feature_names_

\* C25: in the fraction mode of PCA the component count of the refit never
\* exceeds min(sample count, feature count) of the matrix, whatever
\* pca_min_components is, and the PCA stage does not fail on a matrix without
\* missing values.
C25_FloorWithinAvailable ==
    (/\ probe.fn = "_apply_dimensionality_reduction"
     /\ config.apply_pca
     /\ config.pca_n_components.isfloat
     /\ config.pca_n_components.x100 <= 100
     /\ ~probe.X.nan)
    => /\ PcaComponents(config, probe.curve) <= Min(probe.X.n, probe.X.p)
       /\ probe.out.failed # "pca"

====
